---- MODULE Spec2Model ----
(***************************************************************************)
(* MetricsPusher (secure/push-metrics/src/lib.rs): start() resolves the    *)
(* configuration from two environment variables and spawns one thread      *)
(* running run(), an endless loop of gather, encode, HTTP POST and sleep.  *)
(*                                                                         *)
(* The process environment, the prometheus registry, the text encoder,     *)
(* the HTTP sink and the passage of time are the loop's surroundings: the  *)
(* encoder's and the sink's answers are nondeterministic, time advances in *)
(* whole seconds.                                                          *)
(***************************************************************************)
EXTENDS Integers, Sequences, FiniteSets, TLC

VARIABLES
    env,        \* the process environment: variable name -> value
    registry,   \* the prometheus default registry: value of one registered counter
    calls,      \* one record per finished call of start(): the environment it
                \* read, what it logged and what it returned
    threads,    \* the threads spawned by start(), each running run()
    dropped     \* the calls of start() whose JoinHandle the caller has dropped

vars == <<env, registry, calls, threads, dropped>>

\* ----------------------------------------------------------------- bounds

\* calls of start() in one process
MaxStarts == 2
\* largest value the registered counter is driven to
MaxMetric == 1

\* -------------------------------------------------------------- constants

DEFAULT_PUSH_FREQUENCY_SECS == 15

ENDPOINT_VAR == "PUSH_METRICS_ENDPOINT"
FREQUENCY_VAR == "PUSH_METRICS_FREQUENCY_SECS"
EnvKeys == {ENDPOINT_VAR, FREQUENCY_VAR}

\* ------------------------------------------------------------ environment

\* A variable is absent, present with bytes that are no valid Unicode, or
\* present with a string.  A frequency string is a sequence of characters.
Absent == [kind |-> "absent", val |-> <<>>]
NotUnicode == [kind |-> "not_unicode", val |-> <<>>]
Present(s) == [kind |-> "set", val |-> s]

EndpointStrings == {"http://gw:9091/metrics/job/a"}
FrequencyStrings ==
    { <<"a", "b", "c">>, <<"-", "5">>, <<>>, <<"0">>, <<"1">>, <<"+", "2">> }

EnvValues(key) ==
    {Absent, NotUnicode} \cup
    { Present(s) : s \in IF key = ENDPOINT_VAR THEN EndpointStrings
                                               ELSE FrequencyStrings }

Environments ==
    { [k \in EnvKeys |-> IF k = ENDPOINT_VAR THEN e ELSE f] :
        e \in EnvValues(ENDPOINT_VAR), f \in EnvValues(FREQUENCY_VAR) }

\* Seeded fault: env::var_os with a lossy conversion, bytes that are no
\* valid Unicode are read as a string.
EnvVarLossy(e, key) ==
    IF e[key].kind = "absent" THEN [ok |-> FALSE, val |-> <<>>]
                              ELSE [ok |-> TRUE, val |-> e[key].val]

\* std::env::var(key): Ok(value) when the variable is present and valid
\* Unicode, Err(NotPresent) or Err(NotUnicode) otherwise.
EnvVar(e, key) ==
    IF e[key].kind = "set" THEN [ok |-> TRUE, val |-> e[key].val]
                           ELSE [ok |-> FALSE, val |-> <<>>]

\* --------------------------------------------------------- str::parse<u64>

DecimalDigits == <<"0", "1", "2", "3", "4", "5", "6", "7", "8", "9">>
IsDigit(c) == \E i \in DOMAIN DecimalDigits : DecimalDigits[i] = c
DigitValue(c) == (CHOOSE i \in DOMAIN DecimalDigits : DecimalDigits[i] = c) - 1

RECURSIVE DigitsValue(_, _)
DigitsValue(ds, acc) ==
    IF ds = <<>> THEN acc
    ELSE DigitsValue(Tail(ds), acc * 10 + DigitValue(Head(ds)))

\* s.parse::<u64>(): the empty string and a lone sign are errors; one leading
\* "+" is accepted, a "-" is no digit of an unsigned type; every other
\* character must be a decimal digit.  (The strings of FrequencyStrings are
\* too short for the accumulated value to leave the range of u64.)
ParseU64(s) ==
    LET digits == IF s # <<>> /\ s[1] = "+" THEN Tail(s) ELSE s
    IN  IF digits # <<>> /\ \A i \in DOMAIN digits : IsDigit(digits[i])
        THEN [ok |-> TRUE, val |-> DigitsValue(digits, 0)]
        ELSE [ok |-> FALSE, val |-> 0]

\* ------------------------------------------------------------------ start

InfoSkipped ==
    [level |-> "info",
     msg |-> "PUSH_METRICS_ENDPOINT env var is not set. Skipping sending metrics."]
ErrorInvalidFrequency(s) ==
    [level |-> "error", msg |-> "Invalid value for PUSH_METRICS_FREQUENCY_SECS", value |-> s]
InfoStarting(endpoint, secs) ==
    [level |-> "info", msg |-> "Starting push metrics loop",
     endpoint |-> endpoint, frequency |-> secs]

NoConfig(record) ==
    [spawn |-> FALSE, endpoint |-> "", frequency |-> 0, log |-> <<record>>]
Config(endpoint, secs) ==
    [spawn |-> TRUE, endpoint |-> endpoint, frequency |-> secs,
     log |-> <<InfoStarting(endpoint, secs)>>]

\* Seeded fault: the first match has no early return, an absent endpoint is
\* used as the empty string.
ResolveWithoutEndpoint(e) ==
    LET endpoint == EnvVar(e, ENDPOINT_VAR)
        frequency == EnvVar(e, FREQUENCY_VAR)
        parsed == ParseU64(frequency.val)
    IN  IF ~frequency.ok THEN Config(endpoint.val, DEFAULT_PUSH_FREQUENCY_SECS)
        ELSE IF parsed.ok THEN Config(endpoint.val, parsed.val)
        ELSE NoConfig(ErrorInvalidFrequency(frequency.val))

\* Seeded fault: an absent frequency is handled like an invalid one, the
\* default is never used.
ResolveWithoutDefault(e) ==
    LET endpoint == EnvVar(e, ENDPOINT_VAR)
        frequency == EnvVar(e, FREQUENCY_VAR)
        parsed == ParseU64(frequency.val)
    IN  IF ~endpoint.ok THEN NoConfig(InfoSkipped)
        ELSE IF frequency.ok /\ parsed.ok THEN Config(endpoint.val, parsed.val)
        ELSE NoConfig(ErrorInvalidFrequency(frequency.val))

\* Seeded fault: the frequency is read and checked before the endpoint.
ResolveFrequencyFirst(e) ==
    LET endpoint == EnvVar(e, ENDPOINT_VAR)
        frequency == EnvVar(e, FREQUENCY_VAR)
        parsed == ParseU64(frequency.val)
    IN  IF frequency.ok /\ ~parsed.ok
        THEN NoConfig(ErrorInvalidFrequency(frequency.val))
        ELSE IF ~endpoint.ok THEN NoConfig(InfoSkipped)
        ELSE IF ~frequency.ok THEN Config(endpoint.val, DEFAULT_PUSH_FREQUENCY_SECS)
        ELSE Config(endpoint.val, parsed.val)

\* The two matches of start(): what the call decides in environment e.
Resolve(e) ==
    LET endpoint == EnvVar(e, ENDPOINT_VAR)
        frequency == EnvVar(e, FREQUENCY_VAR)
        parsed == ParseU64(frequency.val)
    IN  IF ~endpoint.ok THEN NoConfig(InfoSkipped)
        ELSE IF ~frequency.ok THEN Config(endpoint.val, DEFAULT_PUSH_FREQUENCY_SECS)
        ELSE IF parsed.ok THEN Config(endpoint.val, parsed.val)
        ELSE NoConfig(ErrorInvalidFrequency(frequency.val))

None == [some |-> FALSE, thread |-> 0]
Some(t) == [some |-> TRUE, thread |-> t]

\* Seeded fault: start() gathers for the first push itself and hands the
\* thread an iteration that has begun.
SpawnedAfterGather(endpoint, secs) ==
    [endpoint |-> endpoint, frequency |-> secs, pc |-> "encode",
     snapshot |-> 0, buffer |-> <<>>, trace |-> <<[ev |-> "gather"]>>,
     previous |-> "none", remaining |-> 0, sent |-> FALSE, sinceSend |-> 0]

\* A thread that thread::spawn has created and that has not run yet: run()
\* holds the two arguments it was called with.
SpawnedThread(endpoint, secs) ==
    [endpoint |-> endpoint, frequency |-> secs, pc |-> "gather",
     snapshot |-> 0, buffer |-> <<>>, trace |-> <<>>, previous |-> "none",
     remaining |-> 0, sent |-> FALSE, sinceSend |-> 0]

NextThreadId == Cardinality(DOMAIN threads) + 1

\* Seeded fault: the thread is spawned before the configuration is checked,
\* so a call that returns None leaves a thread behind.
StartSpawnsFirst ==
    /\ Len(calls) < MaxStarts
    /\ LET r == Resolve(env)
           t == NextThreadId
       IN  /\ threads' = threads @@ (t :> SpawnedThread(r.endpoint, r.frequency))
           /\ calls' = Append(calls, [env |-> env, log |-> r.log,
                                      ret |-> IF r.spawn THEN Some(t) ELSE None])
    /\ UNCHANGED <<env, registry, dropped>>

\* One call of start(), from reading the environment to returning.
Start ==
    /\ Len(calls) < MaxStarts
    /\ LET r == Resolve(env)
           t == NextThreadId
       IN  IF r.spawn
           THEN /\ threads' = threads @@ (t :> SpawnedThread(r.endpoint, r.frequency))
                /\ calls' = Append(calls, [env |-> env, log |-> r.log, ret |-> Some(t)])
           ELSE /\ threads' = threads
                /\ calls' = Append(calls, [env |-> env, log |-> r.log, ret |-> None])
    /\ UNCHANGED <<env, registry, dropped>>

\* The calls of start() that returned a handle.
Handles == { i \in DOMAIN calls : calls[i].ret.some }

\* Seeded fault: the handle owns the thread, dropping it ends the thread.
DropHandleStopsThread(i) ==
    /\ i \in Handles \ dropped
    /\ dropped' = dropped \cup {i}
    /\ threads' = [threads EXCEPT ![calls[i].ret.thread].pc = "returned"]
    /\ UNCHANGED <<env, registry, calls>>

\* The caller drops the JoinHandle that call i of start() returned, without
\* joining: the thread is detached.
DropHandle(i) ==
    /\ i \in Handles \ dropped
    /\ dropped' = dropped \cup {i}
    /\ UNCHANGED <<env, registry, calls, threads>>

\* The host process changes or removes an environment variable.
SetEnv ==
    /\ \E k \in EnvKeys : \E v \in EnvValues(k) :
          /\ env[k] # v
          /\ env' = [env EXCEPT ![k] = v]
    /\ UNCHANGED <<registry, calls, threads, dropped>>

\* --------------------------------------------------------------------- run

\* What one iteration of the loop does, in order, is kept in the thread's
\* trace: the events of the iteration in progress, or of the iteration that
\* has just ended while the thread stands at the top of the loop.
GatherEvent == [ev |-> "gather"]
EncodeEvent(ok) == [ev |-> "encode", ok |-> ok]
PostEvent(url, body, response) ==
    [ev |-> "post", url |-> url, body |-> body, response |-> response]
SleepEvent(secs) == [ev |-> "sleep", secs |-> secs]
ErrorEncode == [ev |-> "log", level |-> "error", msg |-> "Failed to encode push metrics"]
ErrorPush(endpoint) ==
    [ev |-> "log", level |-> "error", msg |-> "Failed to push metrics to",
     endpoint |-> endpoint]

RECURSIVE Decimal(_)
Decimal(n) ==
    IF n < 10 THEN <<DecimalDigits[n + 1]>>
    ELSE Decimal(n \div 10) \o <<DecimalDigits[(n % 10) + 1]>>

\* TextEncoder::encode of the gathered counter: its name and its value in
\* decimal, in the text exposition format.
TextEncode(snapshot) == <<"c", " ">> \o Decimal(snapshot)

\* What a failing encode may have written before it failed.
PartialOutputs(snapshot) ==
    { SubSeq(TextEncode(snapshot), 1, n) : n \in 0 .. (Len(TextEncode(snapshot)) - 1) }

SuccessStatus == "success"
StatusError == "status_error"
Synthetic == "synthetic"

\* What ureq's send_bytes returns: a response with a success status, a
\* response with another status, or a synthetic response made from a
\* transport error (connection refused, timeout, bad URL).
Responses == {SuccessStatus, StatusError, Synthetic}

\* Seeded fault: response.error() in place of response.synthetic_error().
AnyError(response) == response # SuccessStatus

\* response.synthetic_error() is Some(..)
SyntheticError(response) == response = Synthetic

Events(trace, kind) == SelectSeq(trace, LAMBDA e : e.ev = kind)

\* How an iteration with this trace went: the encode failed, the POST ended
\* in a transport error, or the POST got a response.
Outcome(trace) ==
    IF trace = <<>> THEN "none"
    ELSE IF \E i \in DOMAIN trace : trace[i] = EncodeEvent(FALSE) THEN "encode_failed"
    ELSE IF \E i \in DOMAIN trace :
               trace[i].ev = "post" /\ SyntheticError(trace[i].response)
         THEN "push_failed"
    ELSE "pushed"

\* Seeded fault: the buffer is created once, before the loop.
GatheredKeepsBuffer(th, reg) ==
    [th EXCEPT !.pc = "encode", !.snapshot = reg,
               !.previous = Outcome(th.trace), !.trace = <<GatherEvent>>]

\* The top of the loop: a new iteration starts, the one before is history.
\* let mut buffer = Vec::new(); prometheus::gather()
Gathered(th, reg) ==
    [th EXCEPT !.pc = "encode", !.buffer = <<>>, !.snapshot = reg,
               !.previous = Outcome(th.trace), !.trace = <<GatherEvent>>]

\* Seeded fault: the registry is gathered a second time for the encode.
EncodedFromRegistry(th) ==
    [th EXCEPT !.pc = "send", !.buffer = @ \o TextEncode(registry),
               !.trace = Append(@, EncodeEvent(TRUE))]

\* encode(..) returned Ok: the text is in the buffer, the else branch follows.
Encoded(th) ==
    [th EXCEPT !.pc = "send", !.buffer = @ \o TextEncode(th.snapshot),
               !.trace = Append(@, EncodeEvent(TRUE))]

\* Seeded fault: the error is logged and the POST is made all the same.
EncodeFailedThenSends(th, partial) ==
    [th EXCEPT !.pc = "send", !.buffer = @ \o partial,
               !.trace = @ \o <<EncodeEvent(FALSE), ErrorEncode>>]

\* Seeded fault: the error is logged and run() returns.
EncodeFailedReturns(th, partial) ==
    [th EXCEPT !.pc = "returned", !.buffer = @ \o partial,
               !.trace = @ \o <<EncodeEvent(FALSE), ErrorEncode>>]

\* encode(..) returned Err(e): the error is logged, the if branch ends.
EncodeFailed(th, partial) ==
    [th EXCEPT !.pc = "sleep", !.buffer = @ \o partial,
               !.trace = @ \o <<EncodeEvent(FALSE), ErrorEncode>>]

\* Seeded fault: a POST that ends in a transport error ends the loop.
SentBreaksOnError(th, response) ==
    [th EXCEPT !.pc = IF SyntheticError(response) THEN "returned" ELSE "sleep",
               !.sent = TRUE, !.sinceSend = 0,
               !.trace = @ \o <<PostEvent(th.endpoint, th.buffer, response)>>
                           \o (IF SyntheticError(response)
                               THEN <<ErrorPush(th.endpoint)>> ELSE <<>>)]

\* Seeded fault: a POST that ends in a transport error is made again at once.
SentWithRetry(th, response) ==
    [th EXCEPT !.pc = "sleep", !.sent = TRUE, !.sinceSend = 0,
               !.trace = @ \o <<PostEvent(th.endpoint, th.buffer, response)>>
                           \o (IF SyntheticError(response)
                               THEN <<ErrorPush(th.endpoint),
                                      PostEvent(th.endpoint, th.buffer, response)>>
                               ELSE <<>>)]

\* ureq::post(endpoint).timeout_connect(10_000).send_bytes(&buffer), then
\* the test of response.synthetic_error().
Sent(th, response) ==
    [th EXCEPT !.pc = "sleep", !.sent = TRUE, !.sinceSend = 0,
               !.trace = @ \o <<PostEvent(th.endpoint, th.buffer, response)>>
                           \o (IF SyntheticError(response)
                               THEN <<ErrorPush(th.endpoint)>> ELSE <<>>)]

\* Seeded fault: the frequency is read from the environment again before
\* every sleep.
SleepingRereadsEnv(th) ==
    LET now == Resolve(env)
        secs == IF now.spawn THEN now.frequency ELSE th.frequency
    IN  [th EXCEPT !.pc = "sleeping", !.remaining = secs,
                   !.trace = Append(@, SleepEvent(secs))]

\* Seeded fault: Duration::from_millis in place of Duration::from_secs.
SleepingMillis(th) ==
    [th EXCEPT !.pc = "sleeping", !.remaining = th.frequency \div 1000,
               !.trace = Append(@, SleepEvent(th.frequency))]

\* Seeded fault: the sleep is doubled after an iteration that failed.
SleepingWithBackoff(th) ==
    LET secs == IF Outcome(th.trace) = "pushed" THEN th.frequency
                                                ELSE 2 * th.frequency
    IN  [th EXCEPT !.pc = "sleeping", !.remaining = secs,
                   !.trace = Append(@, SleepEvent(secs))]

\* thread::sleep(Duration::from_secs(push_metrics_frequency_secs)) is called.
Sleeping(th) ==
    [th EXCEPT !.pc = "sleeping", !.remaining = th.frequency,
               !.trace = Append(@, SleepEvent(th.frequency))]

\* Seeded fault: the sleep may return before the duration has elapsed.
MayWakeEarly(th) == th.pc = "sleeping"

\* thread::sleep may return once the whole duration has elapsed.
MayWake(th) == th.pc = "sleeping" /\ th.remaining = 0

\* thread::sleep returns; the loop body ends and the loop starts over.
Woken(th) == [th EXCEPT !.pc = "gather"]

\* One second passes for a thread: a sleeping thread has one second less to
\* sleep, and the time since its last send attempt grows.  That time is
\* counted up to the thread's frequency, the only value it is compared with.
Elapsed(th) ==
    [th EXCEPT !.remaining = IF th.pc = "sleeping" /\ @ > 0 THEN @ - 1 ELSE @,
               !.sinceSend = IF th.sent /\ @ < th.frequency THEN @ + 1 ELSE @]

\* Seeded fault: the gather collects and resets the counter.
GatherAndReset(t) ==
    /\ threads[t].pc = "gather"
    /\ threads' = [threads EXCEPT ![t] = Gathered(@, registry)]
    /\ registry' = 0
    /\ UNCHANGED <<env, calls, dropped>>

Gather(t) ==
    /\ threads[t].pc = "gather"
    /\ threads' = [threads EXCEPT ![t] = Gathered(@, registry)]
    /\ UNCHANGED <<env, registry, calls, dropped>>

Encode(t) ==
    /\ threads[t].pc = "encode"
    /\ \/ threads' = [threads EXCEPT ![t] = Encoded(@)]
       \/ \E partial \in PartialOutputs(threads[t].snapshot) :
             threads' = [threads EXCEPT ![t] = EncodeFailed(@, partial)]
    /\ UNCHANGED <<env, registry, calls, dropped>>

Send(t) ==
    /\ threads[t].pc = "send"
    /\ \E response \in Responses :
          threads' = [threads EXCEPT ![t] = Sent(@, response)]
    /\ UNCHANGED <<env, registry, calls, dropped>>

Sleep(t) ==
    /\ threads[t].pc = "sleep"
    /\ threads' = [threads EXCEPT ![t] = Sleeping(@)]
    /\ UNCHANGED <<env, registry, calls, dropped>>

Wake(t) ==
    /\ MayWake(threads[t])
    /\ threads' = [threads EXCEPT ![t] = Woken(@)]
    /\ UNCHANGED <<env, registry, calls, dropped>>

\* Another part of the host process increments the registered counter.
RegistryWrite ==
    /\ registry < MaxMetric
    /\ registry' = registry + 1
    /\ UNCHANGED <<env, calls, threads, dropped>>

\* One second passes.
Tick ==
    /\ threads # <<>>
    /\ threads' = [t \in DOMAIN threads |-> Elapsed(threads[t])]
    /\ UNCHANGED <<env, registry, calls, dropped>>

\* ---------------------------------------------------------- specifications

Init ==
    /\ env \in Environments
    /\ registry = 0
    /\ calls = <<>>
    /\ threads = <<>>
    /\ dropped = {}

Step(t) == Gather(t) \/ Encode(t) \/ Send(t) \/ Sleep(t) \/ Wake(t)

\* A process that calls start() once, as the component assumes, with its
\* environment changing, the registry's writers running and time passing.
StartOnce == calls = <<>> /\ Start

Next ==
    \/ StartOnce
    \/ SetEnv
    \/ RegistryWrite
    \/ Tick
    \/ \E i \in DOMAIN calls : DropHandle(i)
    \/ \E t \in DOMAIN threads : Step(t)

Spec == Init /\ [][Next]_vars

\* The process once its caller has called start() and goes on without
\* touching the environment or the handle, with the threads and the clock
\* running: the scheduler lets every thread that can take a step take one,
\* and time passes.
NextRun ==
    \/ StartOnce
    \/ RegistryWrite
    \/ Tick
    \/ \E t \in DOMAIN threads : Step(t)

ThreadIds == 1 .. MaxStarts

Fairness ==
    /\ WF_vars(Tick)
    /\ \A t \in ThreadIds : WF_vars(t \in DOMAIN threads /\ Step(t))

FairSpec == Init /\ [][NextRun]_vars /\ Fairness

\* A process that calls start() repeatedly and changes its environment
\* between the calls, seen from the caller: what each call returns and
\* which threads exist.
NextStarts == Start \/ SetEnv

StartsSpec == Init /\ [][NextStarts]_vars

\* ----------------------------------------------------------------- start()

\* s is the decimal notation of a positive integer.
PositiveInteger(s) ==
    LET digits == IF s # <<>> /\ s[1] = "+" THEN Tail(s) ELSE s
    IN  /\ digits # <<>>
        /\ \A i \in DOMAIN digits : IsDigit(digits[i])
        /\ \E i \in DOMAIN digits : digits[i] # "0"

\* C1: a call of start() that finds PUSH_METRICS_FREQUENCY_SECS present with
\* a value that is no positive integer ("abc", "-5", "", "0") returns None,
\* and no thread runs the loop with a frequency that is not positive.
C1_InvalidFrequencyStartsNothing ==
    /\ \A i \in DOMAIN calls :
          (/\ calls[i].env[FREQUENCY_VAR].kind = "set"
           /\ ~PositiveInteger(calls[i].env[FREQUENCY_VAR].val))
          => ~calls[i].ret.some
    /\ \A t \in DOMAIN threads : threads[t].frequency > 0

\* C2: a call of start() that finds PUSH_METRICS_ENDPOINT absent returns
\* None whatever the frequency variable holds, and creates no thread: there
\* are never more threads than calls that found the endpoint.
C2_AbsentEndpointStartsNothing ==
    /\ \A i \in DOMAIN calls :
          calls[i].env[ENDPOINT_VAR].kind = "absent" => calls[i].ret = None
    /\ Cardinality(DOMAIN threads) <=
          Cardinality({ i \in DOMAIN calls : calls[i].env[ENDPOINT_VAR].kind # "absent" })

\* One call found the endpoint absent and a valid frequency and returned
\* None; another call found the endpoint and started the only thread.
C2_Witness ==
    /\ \E i \in DOMAIN calls :
          /\ calls[i].env[ENDPOINT_VAR].kind = "absent"
          /\ calls[i].env[FREQUENCY_VAR] = Present(<<"1">>)
          /\ calls[i].ret = None
    /\ \E i \in DOMAIN calls : calls[i].ret.some
    /\ Cardinality(DOMAIN threads) = 1

\* C3: when the endpoint is set and the frequency variable is absent,
\* start() starts the loop, and every sleep of that loop is asked to last
\* exactly 15 seconds.
C3_DefaultFrequency ==
    \A i \in DOMAIN calls :
        (/\ calls[i].env[ENDPOINT_VAR].kind = "set"
         /\ calls[i].env[FREQUENCY_VAR].kind = "absent")
        => /\ calls[i].ret.some
           /\ calls[i].ret.thread \in DOMAIN threads
           /\ LET th == threads[calls[i].ret.thread]
              IN  /\ \A k \in DOMAIN th.trace :
                        th.trace[k].ev = "sleep" => th.trace[k].secs = 15
                  /\ th.pc = "sleeping" => Events(th.trace, "sleep") = <<SleepEvent(15)>>
                  /\ th.remaining <= 15

\* Such a loop is in the sleep of a later iteration, one that sent nothing,
\* after an iteration that sent, and 15 seconds have passed since that send.
C3_Witness ==
    \E i \in DOMAIN calls :
        /\ calls[i].env[ENDPOINT_VAR].kind = "set"
        /\ calls[i].env[FREQUENCY_VAR].kind = "absent"
        /\ calls[i].ret.some
        /\ LET th == threads[calls[i].ret.thread]
           IN  /\ th.pc = "sleeping"
               /\ th.previous = "pushed"
               /\ Outcome(th.trace) = "encode_failed"
               /\ th.sinceSend = 15
               /\ th.remaining = 3

\* C4: the threads that exist are those of the calls of start() that
\* returned a handle: as many threads as handles, each handle naming a
\* thread of its own, and a handle exactly for the calls whose environment
\* resolves to a configuration.
C4_OneThreadPerHandle ==
    /\ Cardinality(DOMAIN threads) = Cardinality(Handles)
    /\ \A i \in Handles : calls[i].ret.thread \in DOMAIN threads
    /\ \A i, j \in Handles : calls[i].ret.thread = calls[j].ret.thread => i = j
    /\ \A i \in DOMAIN calls : calls[i].ret.some <=> Resolve(calls[i].env).spawn

\* Two calls in a row returned handles, to two threads with the frequencies
\* their environments gave.
C4_Witness ==
    /\ Len(calls) = 2
    /\ Handles = {1, 2}
    /\ calls[1].ret.thread # calls[2].ret.thread
    /\ threads[calls[1].ret.thread].frequency = 1
    /\ threads[calls[2].ret.thread].frequency = 15

\* -------------------------------------------------------------------- run()

ActivePcs == {"gather", "encode", "send", "sleep", "sleeping"}

Kinds(trace) == [k \in DOMAIN trace |-> trace[k].ev]
IsPrefix(a, b) == Len(a) <= Len(b) /\ SubSeq(b, 1, Len(a)) = a

\* The three ways an iteration can go: the encode fails, the POST gets a
\* response, the POST ends in a transport error.
IterationShapes ==
    { <<"gather", "encode", "log", "sleep">>,
      <<"gather", "encode", "post", "sleep">>,
      <<"gather", "encode", "post", "log", "sleep">> }

\* The iteration of the trace has ended: the thread is back at the top of
\* the loop.
IterationEnded(th) == th.pc = "gather" /\ th.trace # <<>>

\* The endpoint that the call of start() behind thread t read.
ConfiguredEndpoint(t) ==
    LET i == CHOOSE i \in Handles : calls[i].ret.thread = t
    IN  calls[i].env[ENDPOINT_VAR].val

\* C5: an iteration whose encode fails logs the encode error, makes no
\* POST and goes on to the sleep; the iteration after it runs as any other:
\* it starts with a gather and, when its encode succeeds, it makes its POST
\* before it sleeps.
C5_EncodeFailureSkipsSend ==
    \A t \in DOMAIN threads :
        LET th == threads[t]
            failed == <<GatherEvent, EncodeEvent(FALSE), ErrorEncode>>
        IN  /\ Outcome(th.trace) = "encode_failed"
                => /\ Events(th.trace, "post") = <<>>
                   /\ \/ th.trace = failed /\ th.pc = "sleep"
                      \/ /\ th.trace = Append(failed, SleepEvent(th.frequency))
                         /\ th.pc \in {"sleeping", "gather"}
                   /\ th.pc = "gather" => ENABLED Gather(t)
            /\ (th.previous = "encode_failed" /\ th.trace # <<>>)
                => /\ th.trace[1] = GatherEvent
                   /\ (th.pc = "sleeping" /\ Outcome(th.trace) # "encode_failed")
                         => Len(Events(th.trace, "post")) = 1

\* After an iteration whose encode failed, the next iteration has gathered,
\* encoded, sent and is in its sleep.
C5_Witness ==
    \E t \in DOMAIN threads :
        /\ threads[t].previous = "encode_failed"
        /\ threads[t].pc = "sleeping"
        /\ Kinds(threads[t].trace) = <<"gather", "encode", "post", "sleep">>
        /\ threads[t].frequency = 1

\* C6: no iteration makes more than one POST; an iteration whose POST ends
\* in a transport error logs exactly one error, which names the endpoint
\* that start() read, and goes on to the sleep; the next iterations send
\* again.
C6_TransportFailureLoggedOnce ==
    \A t \in DOMAIN threads :
        LET th == threads[t]
            posts == Events(th.trace, "post")
        IN  /\ Len(posts) <= 1
            /\ Outcome(th.trace) = "push_failed"
                => /\ Events(th.trace, "log") = <<ErrorPush(ConfiguredEndpoint(t))>>
                   /\ posts[1].url = ConfiguredEndpoint(t)
                   /\ \/ /\ Kinds(th.trace) = <<"gather", "encode", "post", "log">>
                         /\ th.pc = "sleep"
                      \/ /\ Kinds(th.trace) = <<"gather", "encode", "post", "log", "sleep">>
                         /\ th.pc \in {"sleeping", "gather"}
                   /\ th.pc = "gather" => ENABLED Gather(t)

\* After an iteration whose POST ended in a transport error, the next
\* iteration has made its POST, which failed too, and sleeps.
C6_Witness ==
    \E t \in DOMAIN threads :
        /\ threads[t].previous = "push_failed"
        /\ Outcome(threads[t].trace) = "push_failed"
        /\ threads[t].pc = "sleeping"
        /\ threads[t].frequency = 15

\* C7: a thread that start() spawned exists for ever and is always inside
\* the loop: it is at one of the loop's steps, and either it can take its
\* next step or it is asleep with time left to sleep.
C7_LoopNeverEnds ==
    /\ \A i \in Handles : calls[i].ret.thread \in DOMAIN threads
    /\ \A t \in DOMAIN threads :
          /\ threads[t].pc \in ActivePcs
          /\ \/ ENABLED Step(t)
             \/ threads[t].pc = "sleeping" /\ threads[t].remaining > 0

\* A thread has been through a failed POST and then a failed encode and is
\* back at the top of the loop.
C7_Witness ==
    \E t \in DOMAIN threads :
        /\ threads[t].previous = "push_failed"
        /\ Outcome(threads[t].trace) = "encode_failed"
        /\ IterationEnded(threads[t])
        /\ threads[t].sent

\* C8: the steps of one thread follow each other in the order of the loop
\* body: the trace of an iteration is a beginning of gather, encode, POST
\* or error log, sleep, each at most once; the sleep starts only after the
\* POST has returned or was skipped; and the thread is back at the top of
\* the loop only after its sleep has lasted the whole duration.
C8_IterationsAreSequential ==
    \A t \in DOMAIN threads :
        LET th == threads[t]
            kinds == Kinds(th.trace)
        IN  /\ \E shape \in IterationShapes : IsPrefix(kinds, shape)
            /\ th.pc = "encode" <=> kinds = <<"gather">>
            /\ th.pc = "send" <=> th.trace = <<GatherEvent, EncodeEvent(TRUE)>>
            /\ th.pc = "sleep" <=>
                   /\ Len(kinds) >= 3
                   /\ kinds[Len(kinds)] \in {"post", "log"}
            /\ th.pc = "sleeping" <=>
                   /\ kinds \in IterationShapes
                   /\ \/ th.remaining > 0
                      \/ ENABLED Wake(t)
            /\ th.pc = "gather" <=>
                   \/ th.trace = <<>>
                   \/ kinds \in IterationShapes /\ th.remaining = 0 /\ ~ENABLED Wake(t)

\* A thread with a sleep of 15 seconds has ended its second iteration.
C8_Witness ==
    \E t \in DOMAIN threads :
        /\ IterationEnded(threads[t])
        /\ threads[t].previous # "none"
        /\ threads[t].frequency = 15

\* C9: when a thread that has sent before is about to send again, at least
\* as many seconds as its frequency have passed since its last send
\* attempt; and it is still in the loop.
C9_SendsAreSpaced ==
    \A t \in DOMAIN threads :
        /\ (threads[t].pc = "send" /\ threads[t].sent)
              => threads[t].sinceSend >= threads[t].frequency
        /\ threads[t].sent => threads[t].pc \in ActivePcs

\* A thread with frequency 1 is about to send right after an iteration that
\* sent, one second after that send.
C9_Witness ==
    \E t \in DOMAIN threads :
        /\ threads[t].frequency = 1
        /\ threads[t].pc = "send"
        /\ threads[t].sent
        /\ threads[t].previous = "pushed"
        /\ threads[t].sinceSend = 1

\* C10: an iteration sleeps exactly once, at its end, and asks for a sleep
\* of the thread's frequency, whatever happened in it and in the iteration
\* before: no sleep before the POST or the failed encode, one sleep of
\* `frequency` seconds in every iteration that has reached or ended it.
C10_OneSleepPerIteration ==
    \A t \in DOMAIN threads :
        LET th == threads[t]
            sleeps == Events(th.trace, "sleep")
        IN  /\ (th.pc = "sleeping" \/ IterationEnded(th))
                => /\ sleeps = <<SleepEvent(th.frequency)>>
                   /\ th.trace[Len(th.trace)] = SleepEvent(th.frequency)
                   /\ th.remaining <= th.frequency
            /\ (th.pc \in {"encode", "send", "sleep"} \/ th.trace = <<>>)
                => sleeps = <<>>

\* After an iteration whose encode failed, an iteration whose POST failed
\* has just begun its sleep of one second.
C10_Witness ==
    \E t \in DOMAIN threads :
        /\ threads[t].previous = "encode_failed"
        /\ Outcome(threads[t].trace) = "push_failed"
        /\ threads[t].pc = "sleeping"
        /\ threads[t].frequency = 1
        /\ threads[t].remaining = 1

\* ------------------------------------------------------------------ liveness

\* Thread t has just gathered: a new iteration has begun.
JustGathered(t) == t \in DOMAIN threads /\ threads[t].pc = "encode"

\* Thread t is past the encode and the POST of its iteration, or has not
\* begun one: what remains is the sleep and the way back to the gather.
BeforeGather(t) ==
    t \in DOMAIN threads /\ threads[t].pc \in {"sleep", "sleeping", "gather"}

\* C11: with the thread scheduled and time passing, whatever the encoder
\* and the sink answer, an iteration that is past its encode and its POST
\* is followed by the gather of the next iteration, and an iteration that
\* has gathered gets past its encode and its POST: the thread gathers
\* again and again.
C11_GatherInfinitelyOften ==
    \A t \in ThreadIds :
        /\ BeforeGather(t) ~> JustGathered(t)
        /\ JustGathered(t) ~> BeforeGather(t)

\* A thread has gathered again after a failed POST and then a failed encode.
C11_Witness ==
    /\ JustGathered(1)
    /\ threads[1].previous = "encode_failed"
    /\ threads[1].sent
    /\ threads[1].frequency = 15

\* ------------------------------------------------------- caller and handle

\* The thread that call i of start() returned a handle to.
ThreadOf(i) == calls[i].ret.thread

\* Thread t can do nothing now but wait: it is asleep with time left.
Asleep(t) == threads[t].pc = "sleeping" /\ threads[t].remaining > 0

\* C12: start() returns before the thread has run any step of the loop,
\* and the call itself touches no thread that exists already; nothing that
\* happens afterwards (a step of a loop, a failing encode or POST, a sleep)
\* changes what a call has returned; and whatever the threads are doing,
\* the caller can go on: it can change the environment and drop a handle.
C12_StartDoesNotWait ==
    /\ [][ /\ \A i \in DOMAIN calls : i \in DOMAIN calls' /\ calls'[i] = calls[i]
           /\ \A t \in DOMAIN threads' \ DOMAIN threads :
                  threads'[t].pc = "gather" /\ threads'[t].trace = <<>>
           /\ calls' # calls => \A t \in DOMAIN threads : threads'[t] = threads[t]
         ]_vars
    /\ [](/\ ENABLED SetEnv
          /\ \A i \in Handles \ dropped : ENABLED DropHandle(i))

\* The caller has changed the environment after start() returned a handle
\* that it still holds, while the thread sleeps after a failed POST.
C12_Witness ==
    /\ calls # <<>>
    /\ calls[1].ret = Some(1)
    /\ 1 \notin dropped
    /\ env # calls[1].env
    /\ Asleep(1)
    /\ Outcome(threads[1].trace) = "push_failed"

\* C13: dropping a handle changes no thread and nothing a call returned,
\* and the thread of a dropped handle goes on like any other: it exists, it
\* is inside the loop, and it can take its next step or is asleep with
\* time left.
C13_LoopOutlivesHandle ==
    /\ [][dropped' # dropped => threads' = threads /\ calls' = calls]_vars
    /\ [](\A i \in dropped :
            /\ i \in Handles
            /\ ThreadOf(i) \in DOMAIN threads
            /\ threads[ThreadOf(i)].pc \in ActivePcs
            /\ ENABLED Step(ThreadOf(i)) \/ Asleep(ThreadOf(i)))

\* The handle is dropped and the thread is about to send for the second
\* time in a row.
C13_Witness ==
    /\ 1 \in dropped
    /\ threads[ThreadOf(1)].pc = "send"
    /\ threads[ThreadOf(1)].previous = "pushed"
    /\ threads[ThreadOf(1)].frequency = 15

\* C14: a thread works with the endpoint and the frequency that its call
\* of start() resolved and logged, whatever the environment holds now: its
\* two arguments, the URL of every POST, the endpoint in every error log
\* and the duration of every sleep are those values.
C14_ConfigurationIsFixed ==
    \A i \in Handles :
        LET th == threads[ThreadOf(i)]
            started == calls[i].log[1]
        IN  /\ started.msg = "Starting push metrics loop"
            /\ started.endpoint = calls[i].env[ENDPOINT_VAR].val
            /\ th.endpoint = started.endpoint
            /\ th.frequency = started.frequency
            /\ \A k \in DOMAIN th.trace :
                  /\ th.trace[k].ev = "post" => th.trace[k].url = started.endpoint
                  /\ th.trace[k].ev = "sleep" => th.trace[k].secs = started.frequency
                  /\ (th.trace[k].ev = "log" /\ th.trace[k] # ErrorEncode)
                        => th.trace[k].endpoint = started.endpoint

\* start() read the frequency "1"; the endpoint has been removed and the
\* frequency set to "0" since, and the thread, in a later iteration, has
\* sent to the endpoint and begun a sleep of one second.
C14_Witness ==
    /\ Handles = {1}
    /\ calls[1].env[FREQUENCY_VAR] = Present(<<"1">>)
    /\ env[ENDPOINT_VAR] = Absent
    /\ env[FREQUENCY_VAR] = Present(<<"0">>)
    /\ threads[1].previous = "pushed"
    /\ threads[1].pc = "sleeping"
    /\ threads[1].remaining = 1
    /\ Events(threads[1].trace, "post") # <<>>

\* ------------------------------------------------------------- the registry

\* C15: the registry changes only in steps of its writers: a step in which
\* start() returns, a thread moves (gather, encode, POST, error log, sleep,
\* wake), a handle is dropped or the environment changes leaves it as it is.
C15_RegistryIsOnlyRead ==
    [][ (calls' # calls \/ threads' # threads \/ dropped' # dropped \/ env' # env)
          => registry' = registry ]_vars

\* The counter is at 1 and the thread has gathered that value in two
\* iterations that both sent it.
C15_Witness ==
    /\ registry = 1
    /\ 1 \in DOMAIN threads
    /\ threads[1].snapshot = 1
    /\ threads[1].previous = "pushed"
    /\ Outcome(threads[1].trace) = "pushed"
    /\ IterationEnded(threads[1])

\* C16: the gather of an iteration takes the value the counter has at that
\* moment; no later step of the iteration changes what was gathered, so a
\* write after the gather is not in this iteration's payload and is taken
\* by the next gather; and the body of a POST is the text of the gathered
\* value.
C16_PayloadIsTheGatheredSnapshot ==
    /\ [][ \A t \in DOMAIN threads :
             IF threads[t].pc = "gather" /\ threads'[t].pc # "gather"
             THEN threads'[t].snapshot = registry
             ELSE threads'[t].snapshot = threads[t].snapshot ]_vars
    /\ [](\A t \in DOMAIN threads : \A k \in DOMAIN threads[t].trace :
            threads[t].trace[k].ev = "post"
               => threads[t].trace[k].body = <<"c", " ">> \o Decimal(threads[t].snapshot))

\* The counter was incremented after the gather: the POST of this
\* iteration carried the value 0 while the counter is at 1.
C16_Witness ==
    /\ registry = 1
    /\ 1 \in DOMAIN threads
    /\ threads[1].snapshot = 0
    /\ \E k \in DOMAIN threads[1].trace :
          /\ threads[1].trace[k].ev = "post"
          /\ threads[1].trace[k].body = <<"c", " ", "0">>

\* -------------------------------------------------------- the log of start()

\* s is a decimal number, with or without a "+" before it.
DecimalNumber(s) ==
    LET digits == IF s # <<>> /\ s[1] = "+" THEN Tail(s) ELSE s
    IN  digits # <<>> /\ \A i \in DOMAIN digits : IsDigit(digits[i])

\* C17: every call of start() logs exactly one record: the info record that
\* the push is skipped when the endpoint is absent; the error record with
\* the invalid value when the endpoint is set and the frequency is a string
\* that is no number; the info record with the endpoint and the frequency
\* of the thread when a handle is returned.  An error record is logged only
\* by calls that found the endpoint.
C17_OneLogRecordPerStart ==
    \A i \in DOMAIN calls :
        LET e == calls[i].env
            log == calls[i].log
        IN  /\ Len(log) = 1
            /\ e[ENDPOINT_VAR].kind = "absent" => log = <<InfoSkipped>>
            /\ (/\ e[ENDPOINT_VAR].kind = "set"
                /\ e[FREQUENCY_VAR].kind = "set"
                /\ ~DecimalNumber(e[FREQUENCY_VAR].val))
                  => /\ log = <<ErrorInvalidFrequency(e[FREQUENCY_VAR].val)>>
                     /\ ~calls[i].ret.some
            /\ calls[i].ret.some
                  => log = <<InfoStarting(e[ENDPOINT_VAR].val,
                                          threads[ThreadOf(i)].frequency)>>
            /\ ~calls[i].ret.some => log[1].msg # "Starting push metrics loop"
            /\ log[1].level = "error" => e[ENDPOINT_VAR].kind = "set"

\* One call found no endpoint and the frequency "abc" and logged that the
\* push is skipped; another found the endpoint and logged the invalid "-5".
C17_Witness ==
    /\ \E i \in DOMAIN calls :
          /\ calls[i].env[ENDPOINT_VAR] = Absent
          /\ calls[i].env[FREQUENCY_VAR] = Present(<<"a", "b", "c">>)
          /\ calls[i].log = <<InfoSkipped>>
    /\ \E i \in DOMAIN calls :
          calls[i].log = <<ErrorInvalidFrequency(<<"-", "5">>)>>

\* ------------------------------------------------------------ the response

\* C18: an iteration whose POST got a response, with a success status or
\* with any other, logs nothing and goes on to its sleep; the push error
\* is logged only in an iteration whose POST ended in a transport error.
C18_StatusIsNotInspected ==
    \A t \in DOMAIN threads :
        LET th == threads[t]
            posts == Events(th.trace, "post")
            logs == Events(th.trace, "log")
        IN  /\ (posts # <<>> /\ posts[1].response \in {"success", "status_error"})
                => /\ logs = <<>>
                   /\ IsPrefix(Kinds(th.trace), <<"gather", "encode", "post", "sleep">>)
                   /\ th.pc \in {"sleep", "sleeping", "gather"}
                   /\ th.pc = "sleeping" => th.remaining <= th.frequency
            /\ (\E k \in DOMAIN logs : logs[k].msg = "Failed to push metrics to")
                => posts # <<>> /\ posts[1].response = "synthetic"

\* After an iteration that pushed, the POST of the next got a response
\* with an error status, and the iteration has ended without a log record.
C18_Witness ==
    \E t \in DOMAIN threads :
        /\ threads[t].previous = "pushed"
        /\ IterationEnded(threads[t])
        /\ Events(threads[t].trace, "post") # <<>>
        /\ Events(threads[t].trace, "post")[1].response = "status_error"
        /\ Events(threads[t].trace, "log") = <<>>

\* -------------------------------------------------------- unreadable values

\* C19: a variable whose value is no valid Unicode is handled as an absent
\* one: with such an endpoint start() logs that the push is skipped and
\* returns None; with the endpoint set and such a frequency start() starts
\* a thread with a frequency of 15 seconds.
C19_NotUnicodeIsAbsent ==
    \A i \in DOMAIN calls :
        LET e == calls[i].env
        IN  /\ e[ENDPOINT_VAR].kind = "not_unicode"
                => calls[i].ret = None /\ calls[i].log = <<InfoSkipped>>
            /\ (e[ENDPOINT_VAR].kind = "set" /\ e[FREQUENCY_VAR].kind = "not_unicode")
                => /\ calls[i].ret.some
                   /\ threads[ThreadOf(i)].frequency = 15
                   /\ calls[i].log = <<InfoStarting(e[ENDPOINT_VAR].val, 15)>>

\* One call found an unreadable endpoint and returned None, another found
\* an unreadable frequency and started the thread.
C19_Witness ==
    /\ \E i \in DOMAIN calls :
          calls[i].env[ENDPOINT_VAR] = NotUnicode /\ calls[i].ret = None
    /\ \E i \in DOMAIN calls :
          /\ calls[i].env[FREQUENCY_VAR] = NotUnicode
          /\ calls[i].ret.some
          /\ threads[ThreadOf(i)].frequency = 15

\* --------------------------------------------------------------- the buffer

\* C20: the buffer is empty when the encode begins; it holds the text of
\* this iteration's snapshot, and nothing else, when the POST is made, and
\* that is the body of the POST; after a failed encode it holds at most a
\* beginning of that text, which no POST carries.
C20_FreshBufferPerIteration ==
    \A t \in DOMAIN threads :
        LET th == threads[t]
            posts == Events(th.trace, "post")
        IN  /\ th.pc = "encode" => th.buffer = <<>>
            /\ th.pc = "send" => th.buffer = TextEncode(th.snapshot)
            /\ posts # <<>>
                  => /\ posts[1].body = th.buffer
                     /\ th.buffer = TextEncode(th.snapshot)
            /\ Outcome(th.trace) = "encode_failed"
                  => /\ th.buffer \in PartialOutputs(th.snapshot)
                     /\ posts = <<>>

\* After an iteration whose encode failed, the POST of the next iteration
\* carried exactly the text of the value 1.
C20_Witness ==
    \E t \in DOMAIN threads :
        /\ threads[t].previous = "encode_failed"
        /\ threads[t].snapshot = 1
        /\ Events(threads[t].trace, "post") # <<>>
        /\ Events(threads[t].trace, "post")[1].body = <<"c", " ", "1">>

====
